---- MODULE Spec2Model ----
(***************************************************************************)
(* Model of api/src/types/representation.rs: the mapping of the domain     *)
(* types (types::Gate, types::Comment, types::ActiveHours,                 *)
(* types::ActiveHoursPerWeek) to their external representations.           *)
(*                                                                         *)
(* Option<T> is modelled as a set with at most one element: None is {} and *)
(* Some(x) is {x}, so that None and Some(0) are different values.          *)
(* A HashSet<Comment> is modelled as the duplicate-free sequence of its    *)
(* elements in the order into_iter() yields them; that order is not fixed  *)
(* by the set's contents (std's RandomState seeds every instance anew).    *)
(* DateTime<Utc> and NaiveTime are modelled as integers (instants).        *)
(***************************************************************************)
EXTENDS Integers, Sequences, FiniteSets, TLC

VARIABLES
    gate,       \* the domain types::Gate
    rep,        \* Option<representation::Gate>: a full representation of gate's value
    stateRep,   \* Option<GateStateRep>: a state-only representation of gate's value
    inserted,   \* Option<bool>: what the last HashSet::insert on gate.comments returned
    hours,      \* the domain types::ActiveHoursPerWeek
    hoursRep    \* Option<representation::ActiveHoursPerWeek>: the representation of hours

vars == <<gate, rep, stateRep, inserted, hours, hoursRep>>

----------------------------------------------------------------------------
(* Bounds of the model *)

MaxComments == 2
MaxTime == 2
MaxDisplayOrder == 1
MaxTimeOfDay == 1
MaxPopulatedDays == 2

----------------------------------------------------------------------------
(* Option<T> *)

None == {}
Some(x) == {x}
Unwrap(o) == CHOOSE x \in o : TRUE

Range(s) == {s[i] : i \in 1..Len(s)}

----------------------------------------------------------------------------
(* Value universes *)

GateKeys ==
    { [group |-> "g",  service |-> "s",  environment |-> "e1"],
      [group |-> "g",  service |-> "s",  environment |-> "e2"],
      [group |-> "g",  service |-> "s2", environment |-> "e1"],
      [group |-> "g2", service |-> "s",  environment |-> "e1"] }

GateStates == {"Open", "Closed"}

Times == 1..MaxTime

DisplayOrders == {None} \cup {Some(n) : n \in 0..MaxDisplayOrder}

Ids == {"Comment1", "Comment2"}
Messages == {"Some comment message", "Some other comment message"}

\* types::Comment values
Comments == [id : Ids, message : Messages, created : Times]

TimesOfDay == 0..MaxTimeOfDay

\* types::ActiveHours values; start and end are independent
ActiveHoursValues == [start : TimesOfDay, end : TimesOfDay]

DayNames ==
    {"monday", "tuesday", "wednesday", "thursday", "friday", "saturday", "sunday"}

----------------------------------------------------------------------------
(* HashSet<Comment> *)

\* All duplicate-free enumerations of the set S
Orders(S) ==
    { s \in [1..Cardinality(S) -> S] : \A i, j \in 1..Cardinality(S) : i # j => s[i] # s[j] }

\* HashSet::from([..]): the possible instances holding exactly the elements of S
HashSetFrom(S) == Orders(S)

\* A plausible bug: the comments are kept in a Vec and pushed
VecPush(buckets, c) == {Append(buckets, c)}

\* HashSet::insert: the possible instances after inserting c. An element equal
\* to c (derived Eq over id, message and created) leaves the instance as it is.
HashSetInsert(buckets, c) ==
    IF c \in Range(buckets)
    THEN {buckets}
    ELSE Orders(Range(buckets) \cup {c})

----------------------------------------------------------------------------
(* impl From<types::Comment> for Comment *)

CommentFrom(value) ==
    [id |-> value.id, message |-> value.message, created |-> value.created]

\* Itertools::map_into::<Comment>()
MapInto(s) == [i \in 1..Len(s) |-> CommentFrom(s[i])]

----------------------------------------------------------------------------
(* Itertools::sorted_by_key(|comment| comment.created): a stable sort *)

\* The number of leading elements of s whose key is at most k
RECURSIVE PrefixLE(_, _)
PrefixLE(s, k) ==
    IF s = <<>> \/ Head(s).created > k THEN 0 ELSE 1 + PrefixLE(Tail(s), k)

InsertStable(sorted, x) ==
    LET n == PrefixLE(sorted, x.created)
    IN  SubSeq(sorted, 1, n) \o <<x>> \o SubSeq(sorted, n + 1, Len(sorted))

RECURSIVE SortedDescending(_)
SortedDescending(s) ==
    IF Len(s) = 0 THEN <<>>
    ELSE LET rest == SortedDescending(SubSeq(s, 1, Len(s) - 1))
             x == s[Len(s)]
             n == Cardinality({i \in 1..Len(rest) : rest[i].created >= x.created})
         IN  SubSeq(rest, 1, n) \o <<x>> \o SubSeq(rest, n + 1, Len(rest))

RECURSIVE SortedDedupByKey(_)
SortedDedupByKey(s) ==
    IF Len(s) = 0 THEN <<>>
    ELSE LET rest == SortedDedupByKey(SubSeq(s, 1, Len(s) - 1))
             x == s[Len(s)]
         IN  IF \E i \in 1..Len(rest) : rest[i].created = x.created
             THEN rest
             ELSE InsertStable(rest, x)

RECURSIVE SortedByKey(_)
SortedByKey(s) ==
    IF Len(s) = 0 THEN <<>>
    ELSE InsertStable(SortedByKey(SubSeq(s, 1, Len(s) - 1)), s[Len(s)])

----------------------------------------------------------------------------
(* impl From<types::Gate> for Gate *)

GateFromSwappedKey(value) ==
    [ group         |-> value.key.group,
      service       |-> value.key.service,
      environment   |-> value.key.service,
      state         |-> value.state,
      comments      |-> SortedByKey(MapInto(value.comments)),
      last_updated  |-> value.last_updated,
      display_order |-> value.display_order ]

GateFromDefaultOrder(value) ==
    [ group         |-> value.key.group,
      service       |-> value.key.service,
      environment   |-> value.key.environment,
      state         |-> value.state,
      comments      |-> SortedByKey(MapInto(value.comments)),
      last_updated  |-> value.last_updated,
      display_order |-> IF value.display_order = None THEN Some(0)
                        ELSE value.display_order ]

GateFromLatestComment(value) ==
    LET cs == SortedByKey(MapInto(value.comments))
    IN  [ group         |-> value.key.group,
          service       |-> value.key.service,
          environment   |-> value.key.environment,
          state         |-> value.state,
          comments      |-> cs,
          last_updated  |-> IF cs = <<>> THEN value.last_updated
                            ELSE cs[Len(cs)].created,
          display_order |-> value.display_order ]

\* A plausible bug: .unique_by(|comment| comment.id.clone()) before the sort
RECURSIVE UniqueById(_)
UniqueById(s) ==
    IF Len(s) = 0 THEN <<>>
    ELSE LET rest == UniqueById(SubSeq(s, 1, Len(s) - 1))
             x == s[Len(s)]
         IN  IF \E i \in 1..Len(rest) : rest[i].id = x.id THEN rest ELSE Append(rest, x)

GateFromUniqueById(value) ==
    [ group         |-> value.key.group,
      service       |-> value.key.service,
      environment   |-> value.key.environment,
      state         |-> value.state,
      comments      |-> SortedByKey(UniqueById(MapInto(value.comments))),
      last_updated  |-> value.last_updated,
      display_order |-> value.display_order ]

GateFrom(value) ==
    [ group         |-> value.key.group,
      service       |-> value.key.service,
      environment   |-> value.key.environment,
      state         |-> value.state,
      comments      |-> SortedByKey(MapInto(value.comments)),
      last_updated  |-> value.last_updated,
      display_order |-> value.display_order ]

(* impl From<types::Gate> for GateStateRep *)

GateStateRepFromOpen(value) == [state |-> "Open"]

GateStateRepFrom(value) == [state |-> value.state]

\* The keys and values serde writes for a representation::Gate; display_order
\* carries #[serde(skip_serializing_if = "Option::is_none")]
SerializeGate(r) ==
    [ k \in {"group", "service", "environment", "state", "comments", "last_updated"}
            \cup (IF r.display_order = None THEN {} ELSE {"display_order"}) |->
        IF k = "display_order" THEN Unwrap(r.display_order) ELSE r[k] ]

----------------------------------------------------------------------------
(* impl From<types::ActiveHours> for ActiveHours *)

ActiveHoursFrom(value) == [start |-> value.start, end |-> value.end]

\* Option::map(Into::into)
MapIntoActiveHours(o) == {ActiveHoursFrom(x) : x \in o}

(* impl From<types::ActiveHoursPerWeek> for ActiveHoursPerWeek *)

ActiveHoursPerWeekFromShifted(value) ==
    [ monday    |-> MapIntoActiveHours(value.monday),
      tuesday   |-> MapIntoActiveHours(value.tuesday),
      wednesday |-> MapIntoActiveHours(value.wednesday),
      thursday  |-> MapIntoActiveHours(value.thursday),
      friday    |-> MapIntoActiveHours(value.friday),
      saturday  |-> MapIntoActiveHours(value.saturday),
      sunday    |-> MapIntoActiveHours(value.saturday) ]

ActiveHoursPerWeekFrom(value) ==
    [ monday    |-> MapIntoActiveHours(value.monday),
      tuesday   |-> MapIntoActiveHours(value.tuesday),
      wednesday |-> MapIntoActiveHours(value.wednesday),
      thursday  |-> MapIntoActiveHours(value.thursday),
      friday    |-> MapIntoActiveHours(value.friday),
      saturday  |-> MapIntoActiveHours(value.saturday),
      sunday    |-> MapIntoActiveHours(value.sunday) ]

\* The keys and values serde writes for a representation::ActiveHoursPerWeek;
\* every day carries #[serde(skip_serializing_if = "Option::is_none")]
SerializeActiveHoursPerWeek(r) ==
    [ d \in {d \in DayNames : r[d] # None} |-> Unwrap(r[d]) ]

----------------------------------------------------------------------------
(* States *)

\* The domain gates with at most MaxComments comments, in every storage order
Gates ==
    { [ key |-> k, state |-> s, comments |-> cs, last_updated |-> t, display_order |-> d ] :
        k \in GateKeys, s \in GateStates,
        cs \in UNION {HashSetFrom(S) : S \in {S \in SUBSET Comments : Cardinality(S) <= MaxComments}},
        t \in Times, d \in DisplayOrders }

\* unit_tests::some_gate without its comments
EmptyGate ==
    [ key |-> [group |-> "g", service |-> "s", environment |-> "e1"],
      state |-> "Open", comments |-> <<>>, last_updated |-> 1, display_order |-> None ]

NoHours == [d \in DayNames |-> None]

\* The weekly schedules with at most MaxPopulatedDays days populated
HoursValues ==
    UNION { { [d \in DayNames |-> IF d \in P THEN Some(f[d]) ELSE None] :
                f \in [P -> ActiveHoursValues] } :
            P \in {P \in SUBSET DayNames : Cardinality(P) <= MaxPopulatedDays} }

----------------------------------------------------------------------------
(* Conversions *)

\* let r: representation::Gate = gate.clone().into()
Convert ==
    /\ rep' = Some(GateFrom(gate))
    /\ UNCHANGED <<gate, stateRep, inserted, hours, hoursRep>>

\* let r: GateStateRep = gate.clone().into()
ConvertState ==
    /\ stateRep' = Some(GateStateRepFrom(gate))
    /\ UNCHANGED <<gate, rep, inserted, hours, hoursRep>>

\* The same gate built anew, as unit_tests::some_gate does on every call: the
\* fields are equal and the HashSet is a new instance of the same elements.
Rebuild ==
    /\ \E cs \in HashSetFrom(Range(gate.comments)) :
          gate' = [gate EXCEPT !.comments = cs]
    /\ UNCHANGED <<rep, stateRep, inserted, hours, hoursRep>>

\* let r: representation::ActiveHoursPerWeek = hours.clone().into()
ConvertHours ==
    /\ hoursRep' = Some(ActiveHoursPerWeekFrom(hours))
    /\ UNCHANGED <<gate, rep, stateRep, inserted, hours>>

----------------------------------------------------------------------------
(* Mutations of a gate. A mutation yields a new value of the gate, of which  *)
(* no representation has been produced yet.                                  *)

\* gate.comments.insert(c), stamped with the time of the mutation
InsertComment(c, now) ==
    /\ now >= gate.last_updated
    /\ c \in Range(gate.comments) \/ Len(gate.comments) < MaxComments
    /\ \E cs \in HashSetInsert(gate.comments, c) :
          gate' = [gate EXCEPT !.comments = cs, !.last_updated = now]
    /\ inserted' = Some(c \notin Range(gate.comments))
    /\ rep' = None
    /\ UNCHANGED <<stateRep, hours, hoursRep>>

\* gate.state = s, stamped with the time of the mutation
SetState(s, now) ==
    /\ now >= gate.last_updated
    /\ gate' = [gate EXCEPT !.state = s, !.last_updated = now]
    /\ inserted' = None
    /\ rep' = None
    /\ UNCHANGED <<stateRep, hours, hoursRep>>

----------------------------------------------------------------------------
(* Specifications *)

\* The conversions of a gate, over every gate within the bounds
Init ==
    /\ gate \in Gates
    /\ rep = None
    /\ stateRep = None
    /\ inserted = None
    /\ hours = NoHours
    /\ hoursRep = None

Next ==
    \/ Convert
    \/ ConvertState
    \/ Rebuild

Spec == Init /\ [][Next]_vars

\* A gate from its creation through its mutations and conversions
InitMutate ==
    /\ gate = EmptyGate
    /\ rep = None
    /\ stateRep = None
    /\ inserted = None
    /\ hours = NoHours
    /\ hoursRep = None

NextMutate ==
    \/ \E c \in Comments, now \in Times : InsertComment(c, now)
    \/ \E s \in GateStates, now \in Times : SetState(s, now)
    \/ Convert

SpecMutate == InitMutate /\ [][NextMutate]_vars

\* The conversion of a weekly schedule, over every schedule within the bounds
InitHours ==
    /\ gate = EmptyGate
    /\ rep = None
    /\ stateRep = None
    /\ inserted = None
    /\ hours \in HoursValues
    /\ hoursRep = None

NextHours == ConvertHours

SpecHours == InitHours /\ [][NextHours]_vars

----------------------------------------------------------------------------
(* Properties *)

\* The comments of the full representation in hand
RepComments == Unwrap(rep).comments

\* C1: the comment list of the full representation is non-decreasing in
\* created, whatever the order the gate's HashSet is iterated in.
C1_SortedByCreated ==
    rep # None =>
        \A i, j \in 1..Len(RepComments) :
            i < j => RepComments[i].created <= RepComments[j].created

\* A representation made from a HashSet that iterates a later comment first
C1_Witness ==
    /\ rep = Some(GateFrom(gate))
    /\ \E i, j \in 1..Len(gate.comments) :
          i < j /\ gate.comments[i].created > gate.comments[j].created

\* C2: two conversions of the same domain gate (equal key, state, comment set,
\* last_updated and display_order) yield identical output, whatever order the
\* comment set is iterated in: a conversion yields the representation the
\* conversion before it yielded.
C2_Deterministic ==
    [][ (rep # None /\ rep' # None) => rep' = rep ]_vars

\* C3: display_order is carried as it is: absent in the domain, the
\* representation has None and its serialization has no display_order key;
\* Some(n), zero included, the key is present with the value n.
C3_DisplayOrderCarried ==
    rep # None =>
        LET r == Unwrap(rep)
            json == SerializeGate(r)
        IN  /\ r.display_order = gate.display_order
            /\ ("display_order" \in DOMAIN json) <=> (gate.display_order # None)
            /\ gate.display_order # None =>
                  json["display_order"] = Unwrap(gate.display_order)
            /\ r.display_order # Some(0) \/ gate.display_order # None

\* A representation of a gate without display_order, serialized without the key
C3_Witness ==
    /\ rep = Some(GateFrom(gate))
    /\ gate.display_order = None
    /\ "display_order" \notin DOMAIN SerializeGate(Unwrap(rep))

\* C4: group, service, environment, state and last_updated of the full
\* representation equal those of the gate, and a gate that differs from it in
\* one component of the key alone never maps to the same representation.
C4_KeyStateCarried ==
    rep # None =>
        LET r == Unwrap(rep)
        IN  /\ r.group = gate.key.group
            /\ r.service = gate.key.service
            /\ r.environment = gate.key.environment
            /\ r.state = gate.state
            /\ r.last_updated = gate.last_updated
            /\ \A k \in GateKeys \ {gate.key} :
                  GateFrom([gate EXCEPT !.key = k]) # r

\* A representation of the gate ("g", "s", "e2"), which shares group and
\* service with ("g", "s", "e1")
C4_Witness ==
    /\ rep = Some(GateFrom(gate))
    /\ gate.key = [group |-> "g", service |-> "s", environment |-> "e2"]
    /\ gate.state = "Closed"

\* C5: every weekday of the mapped schedule is present exactly when the domain
\* has it, with the same start and end, and is serialized exactly then; no day
\* takes another day's value.
C5_HoursCarried ==
    hoursRep # None =>
        LET r == Unwrap(hoursRep)
            json == SerializeActiveHoursPerWeek(r)
        IN  /\ DOMAIN r = DayNames
            /\ DOMAIN json = {d \in DayNames : hours[d] # None}
            /\ \A d \in DayNames :
                  /\ (r[d] # None) <=> (hours[d] # None)
                  /\ hours[d] # None =>
                        /\ Unwrap(r[d]).start = Unwrap(hours[d]).start
                        /\ Unwrap(r[d]).end = Unwrap(hours[d]).end
                        /\ json[d] = Unwrap(r[d])

\* The mapped schedule of a config with monday alone populated
C5_Witness ==
    /\ hoursRep # None
    /\ hours.monday # None
    /\ \A d \in DayNames \ {"monday"} : hours[d] = None
    /\ DOMAIN SerializeActiveHoursPerWeek(Unwrap(hoursRep)) = {"monday"}

\* C6: the state-only representation holds the state alone, equal to the
\* gate's; it is the same for every gate of that state, whatever its key,
\* comments, last_updated and display_order, and agrees with the state of the
\* full representation.
C6_StateOnly ==
    stateRep # None =>
        LET r == Unwrap(stateRep)
        IN  /\ DOMAIN r = {"state"}
            /\ r.state = gate.state
            /\ rep # None => Unwrap(rep).state = r.state
            /\ \A k \in GateKeys, t \in Times, d \in DisplayOrders :
                  GateStateRepFrom([gate EXCEPT !.key = k, !.last_updated = t,
                                                !.display_order = d,
                                                !.comments = <<>>]) = r

\* Both representations of a closed gate that has comments
C6_Witness ==
    /\ stateRep = Some(GateStateRepFrom(gate))
    /\ rep # None
    /\ gate.state = "Closed"
    /\ Len(gate.comments) > 0

C9_CommentsPermutation ==
    rep # None =>
        /\ Len(RepComments) = Cardinality(Range(gate.comments))
        /\ Range(RepComments) = Range(gate.comments)
        /\ \A c \in Range(gate.comments) :
              Cardinality({i \in 1..Len(RepComments) :
                              /\ RepComments[i].id = c.id
                              /\ RepComments[i].message = c.message
                              /\ RepComments[i].created = c.created}) = 1

\* A representation of a gate with two comments created at the same instant
C9_Witness ==
    /\ rep # None
    /\ Len(RepComments) >= 2
    /\ \E i, j \in 1..Len(RepComments) :
          i # j /\ RepComments[i].created = RepComments[j].created

\* C10: inserting a comment whose id a comment of the set has, with another
\* message or created, keeps both in the set, and both are in the comment list
\* of the full representation.
C10_UniqueByRecord ==
    [][ \A c \in Comments \ Range(gate.comments), d \in Range(gate.comments) :
            (d.id = c.id /\ c \in Range(gate'.comments)
                /\ InsertComment(c, gate'.last_updated)) =>
                /\ Range(gate'.comments) = Range(gate.comments) \cup {c}
                /\ Len(gate'.comments) = Len(gate.comments) + 1
                /\ {c, d} \subseteq Range(GateFrom(gate').comments) ]_vars

\* A gate converted after an insert of a new comment, with two comments of one id
C10_Witness ==
    /\ inserted = Some(TRUE)
    /\ rep # None
    /\ \E i, j \in 1..Len(RepComments) :
          /\ i # j
          /\ RepComments[i].id = RepComments[j].id
          /\ RepComments[i] # RepComments[j]

====
